---- MODULE Spec2Model ----
(***************************************************************************)
(* Task dashboard (KingTurbo/dashsy).                                      *)
(*   src/script.js         document-store variant (Firestore listener)     *)
(*   src/unnamed/part_000  embedded-store variant (sql.js + localStorage)  *)
(* One backing store is selected at startup (variable variant) and never   *)
(* mixed at runtime.                                                       *)
(***************************************************************************)
EXTENDS Integers, Sequences, FiniteSets, TLC

VARIABLES
  variant,          \* "doc" (script.js) or "embedded" (part_000)
  store,            \* Firestore collection dashboard_items: id -> document
  nextId,           \* next document id the store assigns (ids are never reused)
  dashboardItems,   \* script.js:21 Local Cache
  writes,           \* writes applied to the backing store so far; the clock
  currentItemId,    \* script.js:22
  ops,              \* in-flight updateItemGroupByCodeFull calls
  lastEvent,        \* the handler that ran last and what handleError did in it
  globalDB,         \* part_000:39 the embedded table, row -> record
  currentGroupCode, \* part_000:41
  localStorageDB,   \* part_000:418 image under 'data_bifie_db'
  showingSingleRandomTask,  \* script.js:24, part_000:43
  unsubscribeSnapshot,  \* script.js:26 handle of the installed listener, 0 = null
  listeners,        \* subscriptions the store still delivers snapshots to
  currentSearchTerm,       \* script.js:25; the search box in part_000
  filterUnfinishedActive,  \* script.js:23, part_000:42
  dom               \* what the page shows: table, output area, chart, modal

vars == <<variant, store, nextId, dashboardItems, writes, currentItemId, ops,
          lastEvent, globalDB, currentGroupCode, localStorageDB,
          showingSingleRandomTask, unsubscribeSnapshot, listeners,
          currentSearchTerm, filterUnfinishedActive, dom>>

docVars == <<store, nextId, dashboardItems, currentItemId, ops>>
embVars == <<globalDB, currentGroupCode, localStorageDB, showingSingleRandomTask>>
pageVars == <<unsubscribeSnapshot, listeners, currentSearchTerm,
              filterUnfinishedActive, dom>>

----------------------------------------------------------------------------
(* Bounds *)
MaxIds == 3     \* documents ever created in the collection
MaxWrites == 2  \* writes that change the backing store in one behaviour
MaxListens == 2 \* subscriptions ever installed in one behaviour
MaxOps == 2     \* group updates the page has in flight at once

Ids == 1..MaxIds
NoId == 0                 \* currentItemId = null
Now == writes + 1         \* Timestamp.now() / new Date(): a logical clock
Codes == {"A", "B"}

----------------------------------------------------------------------------
(* Field values.  A JS value is null, a string (a sequence of tokens; ","  *)
(* and " " are tokens of their own) or a Firestore Timestamp object.        *)
NullV == [kind |-> "null", s |-> <<>>, n |-> 0]
StrV(s) == [kind |-> "str", s |-> s, n |-> 0]
TsV(n) == [kind |-> "ts", s |-> <<>>, n |-> n]
\* the value of a property the object does not have (undefined)
UndefV == [kind |-> "undef", s |-> <<>>, n |-> 0]
\* item.hasOwnProperty(f), given the value item[f]
HasOwn(v) == v.kind # "undef"

RECURSIVE TrimLeft(_)
TrimLeft(s) == IF s # <<>> /\ Head(s) = " " THEN TrimLeft(Tail(s)) ELSE s

RECURSIVE TrimRight(_)
TrimRight(s) ==
  IF s # <<>> /\ s[Len(s)] = " " THEN TrimRight(SubSeq(s, 1, Len(s) - 1)) ELSE s

Trim(s) == TrimRight(TrimLeft(s))

Truthy(v) == v.kind = "ts" \/ (v.kind = "str" /\ v.s # <<>>)

\* script.js:269, 335: finishedValue && (typeof !== 'string' || trim() !== '')
IsDone(v) == Truthy(v) /\ (v.kind # "str" \/ Trim(v.s) # <<>>)

----------------------------------------------------------------------------
(* Error surface *)

NoReport == [handled |-> 0, shown |-> 0]

\* script.js:31-48.  console.error runs first; the message is put in the
\* error area only after error.code was read, which throws a TypeError when
\* the caller passed no error object.
HandleError(hasError) == [handled |-> 1, shown |-> IF hasError THEN 1 ELSE 0]

Event(result, rep) ==
  [result |-> result, handled |-> rep.handled, shown |-> rep.shown]

----------------------------------------------------------------------------
(* Documents *)

NameOfNewItem(i) == <<"task1", "task2", "task3", "task4", "task5", "task6">>[i]

\* script.js:153-159 dataToAdd: the defaults, then the caller's fields
NewDoc(i, code) ==
  [codeFull |-> code, name |-> NameOfNewItem(i), finished |-> NullV, Rating |-> NullV]

\* a record another writer imports with a marking already on it
ImportedDoc(i, code, marked) ==
  IF marked THEN [NewDoc(i, code) EXCEPT !.finished = StrV(<<"2024-01-01T00:00:00Z">>)]
  ELSE NewDoc(i, code)

\* a merge that takes the marking off a record that is already done
MergeToggle(d, data) ==
  IF data.field = "finished"
  THEN [d EXCEPT !.finished = IF IsDone(d.finished) THEN NullV ELSE data.value]
  ELSE IF data.field = "Rating" THEN [d EXCEPT !.Rating = data.value]
  ELSE d

\* a write that replaces the document (setDoc without merge)
MergeReplace(d, data) ==
  [codeFull |-> "", name |-> "",
   finished |-> IF data.field = "finished" THEN data.value ELSE NullV,
   Rating |-> IF data.field = "Rating" THEN data.value ELSE NullV]

\* updateDoc / batch.update(ref, data): only the named field is written
Merge(d, data) ==
  IF data.field = "finished" THEN [d EXCEPT !.finished = data.value]
  ELSE IF data.field = "Rating" THEN [d EXCEPT !.Rating = data.value]
  ELSE d

\* script.js:758 batch.update(itemRef, { finished: null, Rating: null })
ClearDoc(d) == [d EXCEPT !.finished = NullV, !.Rating = NullV]

RECURSIVE SortedIds(_)
SortedIds(S) ==
  IF S = {} THEN <<>>
  ELSE LET m == CHOOSE x \in S : \A y \in S : x <= y
       IN <<m>> \o SortedIds(S \ {m})

Item(st, i) ==
  [id |-> i, codeFull |-> st[i].codeFull, name |-> st[i].name,
   finished |-> st[i].finished, Rating |-> st[i].Rating]

\* a refresh that keeps the cached entries and appends the unknown documents
NewItemsPatch(st) ==
  LET kept == SelectSeq(dashboardItems, LAMBDA e : e.id \in DOMAIN st)
      old == {dashboardItems[k].id : k \in 1..Len(dashboardItems)}
      fresh == SortedIds(DOMAIN st \ old)
  IN kept \o [k \in 1..Len(fresh) |-> Item(st, fresh[k])]

\* script.js:100-103 newItems: one entry per document of the snapshot
NewItems(st) ==
  LET ids == SortedIds(DOMAIN st)
  IN [k \in 1..Len(ids) |-> Item(st, ids[k])]

CachedIds == {dashboardItems[k].id : k \in 1..Len(dashboardItems)}

\* dashboardItems.find(item => item.id === id): index of the first hit, 0 if none
FindIndex(id) ==
  IF \E k \in 1..Len(dashboardItems) : dashboardItems[k].id = id
  THEN CHOOSE k \in 1..Len(dashboardItems) :
         /\ dashboardItems[k].id = id
         /\ \A j \in 1..(k - 1) : dashboardItems[j].id # id
  ELSE 0

\* a query answered from the cached ids only
QueryCachedByCodeFull(st, code) == {i \in CachedIds \cap DOMAIN st : st[i].codeFull = code}

\* script.js:498-501 getDocs(query(..., where("codeFull", "==", codeFullValue)))
QueryByCodeFull(st, code) == {i \in DOMAIN st : st[i].codeFull = code}

\* a commit whose first update lands although the batch fails
BatchCommitPartial(st, ids, data, serverOk) ==
  IF serverOk /\ ids \subseteq DOMAIN st
  THEN [ok |-> TRUE,
        store |-> [i \in DOMAIN st |-> IF i \in ids THEN Merge(st[i], data) ELSE st[i]]]
  ELSE [ok |-> FALSE,
        store |-> [i \in DOMAIN st |->
                    IF i \in ids /\ \A j \in ids : i <= j
                    THEN Merge(st[i], data) ELSE st[i]]]

\* script.js:512-523 writeBatch: every update is applied or none is; an update of
\* a document that no longer exists fails the batch.
BatchCommit(st, ids, data, serverOk) ==
  IF serverOk /\ ids \subseteq DOMAIN st
  THEN [ok |-> TRUE,
        store |-> [i \in DOMAIN st |-> IF i \in ids THEN Merge(st[i], data) ELSE st[i]]]
  ELSE [ok |-> FALSE, store |-> st]

\* A write that changes the collection counts against the budget.
CanWrite(st) == st # store => writes < MaxWrites
WritesAfter(st) == IF st # store THEN writes + 1 ELSE writes

IdleOp == [pc |-> "idle", code |-> "", data |-> [field |-> "", value |-> NullV],
           matched |-> {}]

----------------------------------------------------------------------------
(* Inputs *)

\* the enumerated rating labels (script.js:458, 590)
RatingLabels == {<<"easy">>, <<"medium">>, <<"hard">>, <<"false">>}
\* values ratingSelect.value is drawn from: a label, and an option value that
\* is not among the enumerated labels
SelectValues == {<<"medium">>, <<"unlisted">>}

\* dataToUpdate of a direct updateTask / updateItemGroupByCodeFull call
FieldUpdates == {[field |-> "finished", value |-> TsV(Now)]}

\* ids a direct updateTask / deleteTask call is made with: none, or the
\* selected record when it is the first one
DirectIds == {NoId, 1}

\* group codes typed into the add form
FormCodes == {"A"}

\* records another writer adds: a fresh one of group A, or an import into
\* group B that already carries a marking
RemoteRecords == {[code |-> "A", marked |-> FALSE], [code |-> "B", marked |-> TRUE]}

----------------------------------------------------------------------------
(* Text.  A string is a sequence of tokens; a digit, "-", ":", ",", " " are *)
(* tokens of their own, every other token is a word that is compared whole. *)

Range(s) == {s[k] : k \in 1..Len(s)}

\* String.prototype.toLowerCase on the words that carry upper-case letters
LowerWord(w) ==
  CASE w = "A" -> "a"
    [] w = "B" -> "b"
    [] w = "C" -> "c"
    [] w = "2024-01-01T00:00:00Z" -> "2024-01-01t00:00:00z"
    [] w = "2023-12-31T10:00:00.000Z" -> "2023-12-31t10:00:00.000z"
    [] w = "2024-10-02T08:00:00Z" -> "2024-10-02t08:00:00z"
    [] w = "2024-02-10T08:00:00Z" -> "2024-02-10t08:00:00z"
    [] w = "2024-01-01T10:00:00.000Z" -> "2024-01-01t10:00:00.000z"
    [] w = "2024-01-02T10:00:00.000Z" -> "2024-01-02t10:00:00.000z"
    [] w = "2024-01-03T10:00:00.000Z" -> "2024-01-03t10:00:00.000z"
    [] w = "2024-01-04T10:00:00.000Z" -> "2024-01-04t10:00:00.000z"
    [] w = "2024-01-05T10:00:00.000Z" -> "2024-01-05t10:00:00.000z"
    [] w = "2024-01-06T10:00:00.000Z" -> "2024-01-06t10:00:00.000z"
    [] w = "Timestamp" -> "timestamp"
    [] OTHER -> w

ToLowerCase(s) == [k \in 1..Len(s) |-> LowerWord(s[k])]

\* String.prototype.includes: t occurs in s as a run of consecutive tokens
Includes(s, t) ==
  \E k \in 0..(Len(s) - Len(t)) : SubSeq(s, k + 1, k + Len(t)) = t

\* s.split(',') followed by taking the last part: what follows the last ","
LastPart(s) ==
  LET commas == {k \in 1..Len(s) : s[k] = ","}
      last == IF commas = {} THEN 0 ELSE CHOOSE k \in commas : \A j \in commas : j <= k
  IN SubSeq(s, last + 1, Len(s))

Digit(k) == <<"0", "1", "2", "3", "4", "5", "6", "7", "8", "9">>[k + 1]

\* Number.prototype.toString for a non-negative integer
RECURSIVE Decimal(_)
Decimal(n) == IF n < 10 THEN <<Digit(n)>> ELSE Decimal(n \div 10) \o <<Digit(n % 10)>>

\* ("0" + n).slice(-2) and n.toString().padStart(2, '0') for 0 <= n <= 99
Pad2(n) == LET t == <<"0">> \o Decimal(n) IN SubSeq(t, Len(t) - 1, Len(t))

\* the code unit that orders a token in a string comparison
CharCode(c) ==
  CASE c = "-" -> 45
    [] c = "0" -> 48 [] c = "1" -> 49 [] c = "2" -> 50 [] c = "3" -> 51
    [] c = "4" -> 52 [] c = "5" -> 53 [] c = "6" -> 54 [] c = "7" -> 55
    [] c = "8" -> 56 [] c = "9" -> 57
    [] OTHER -> 78

\* a < b in the order Array.prototype.sort uses without a comparator
RECURSIVE StrLess(_, _)
StrLess(a, b) ==
  IF b = <<>> THEN FALSE
  ELSE IF a = <<>> THEN TRUE
  ELSE IF CharCode(Head(a)) # CharCode(Head(b)) THEN CharCode(Head(a)) < CharCode(Head(b))
  ELSE StrLess(Tail(a), Tail(b))

RECURSIVE SortStrings(_)
SortStrings(S) ==
  IF S = {} THEN <<>>
  ELSE LET m == CHOOSE x \in S : \A y \in S \ {x} : StrLess(x, y)
       IN <<m>> \o SortStrings(S \ {m})

----------------------------------------------------------------------------
(* Dates *)

InvalidDate == [y |-> 0, m |-> 0, d |-> 0, h |-> 0, mi |-> 0]
DateOf(y, m, d, h) == [y |-> y, m |-> m, d |-> d, h |-> h, mi |-> 0]

\* Timestamp.toDate(): the logical clock counts days of January 2024
ToDate(n) == DateOf(2024, 1, n, 10)

\* new Date(string): the date strings the records carry; anything else is an
\* invalid date
ParseDate(s) ==
  IF Len(s) # 1 THEN InvalidDate
  ELSE CASE s[1] = "2024-01-01T00:00:00Z" -> DateOf(2024, 1, 1, 0)
         [] s[1] = "2023-12-31T10:00:00.000Z" -> DateOf(2023, 12, 31, 10)
         [] s[1] = "2024-10-02T08:00:00Z" -> DateOf(2024, 10, 2, 8)
         [] s[1] = "2024-02-10T08:00:00Z" -> DateOf(2024, 2, 10, 8)
         [] s[1] = "2024-01-01T10:00:00.000Z" -> DateOf(2024, 1, 1, 10)
         [] s[1] = "2024-01-02T10:00:00.000Z" -> DateOf(2024, 1, 2, 10)
         [] s[1] = "2024-01-03T10:00:00.000Z" -> DateOf(2024, 1, 3, 10)
         [] s[1] = "2024-01-04T10:00:00.000Z" -> DateOf(2024, 1, 4, 10)
         [] s[1] = "2024-01-05T10:00:00.000Z" -> DateOf(2024, 1, 5, 10)
         [] s[1] = "2024-01-06T10:00:00.000Z" -> DateOf(2024, 1, 6, 10)
         [] OTHER -> InvalidDate

\* script.js:52-82 formatDate: `YYYY-MM-DD HH:mm`, or the input itself when it
\* is no date
FormatDate(v) ==
  LET date == IF v.kind = "ts" THEN ToDate(v.n)
              ELSE IF v.kind = "str" THEN ParseDate(v.s) ELSE InvalidDate
  IN IF date = InvalidDate THEN v.s
     ELSE Decimal(date.y) \o <<"-">> \o Pad2(date.m) \o <<"-">> \o Pad2(date.d)
          \o <<" ">> \o Pad2(date.h) \o <<":">> \o Pad2(date.mi)

\* script.js:351-354 dateKey `${year}-${month}-${day}`
DateKey(date) ==
  Decimal(date.y) \o <<"-">> \o Pad2(date.m) \o <<"-">> \o Pad2(date.d)

----------------------------------------------------------------------------
(* The page of the document-store variant: table, output area, chart *)

\* the own properties a document's data() can carry, in the order of Item
FieldNames == <<"codeFull", "name", "finished", "Rating">>

\* the document id as the string doc.id
IdText(i) == <<"doc">> \o Decimal(i)

\* item[colName]; the group code and the name are one word each
ValueOf(item, col) ==
  IF col = "id" THEN StrV(IdText(item.id))
  ELSE IF col \in {"codeFull", "name"} THEN StrV(<<item[col]>>)
  ELSE IF col \in {"finished", "Rating"} THEN item[col]
  ELSE UndefV

\* Object.keys(item)
Keys(item) == <<"id">> \o SelectSeq(FieldNames, LAMBDA f : HasOwn(ValueOf(item, f)))

\* String(val ?? '')
StringOf(v) ==
  CASE v.kind = "str" -> v.s
    [] v.kind = "ts" -> <<"Timestamp">> \o Decimal(v.n)
    [] OTHER -> <<>>

\* script.js:234 Object.values(item).map(val => String(val ?? '')).join(" ")
RECURSIVE JoinValues(_, _)
JoinValues(item, keys) ==
  IF keys = <<>> THEN <<>>
  ELSE StringOf(ValueOf(item, Head(keys)))
       \o (IF Len(keys) > 1 THEN <<" ">> \o JoinValues(item, Tail(keys)) ELSE <<>>)

\* script.js:234-235
MatchesSearch(item, term) ==
  term = <<>> \/ Includes(ToLowerCase(JoinValues(item, Keys(item))), ToLowerCase(term))

\* an unfinished test that does not trim the string
IsUnfinishedUntrimmed(item) ==
  IF HasOwn(item.finished) THEN ~Truthy(item.finished) ELSE TRUE

\* script.js:238-245
IsUnfinished(item) ==
  IF HasOwn(item.finished)
  THEN ~Truthy(item.finished)
       \/ (item.finished.kind = "str" /\ Trim(item.finished.s) = <<>>)
  ELSE TRUE

\* script.js:231-249 dashboardItems.filter(...)
FilteredItems(items, term, filterOn) ==
  SelectSeq(items, LAMBDA item :
    MatchesSearch(item, term) /\ (~filterOn \/ IsUnfinished(item)))

\* script.js:215
TableColumns ==
  <<"insertItem", "name", "dateRelease", "codeSection", "codeFull", "finished", "Rating">>

\* script.js:285-300 the text of one cell
CellText(item, col) ==
  LET v == ValueOf(item, col)
  IN IF col = "finished" /\ Truthy(v) /\ (v.kind # "str" \/ Trim(v.s) # <<>>)
     THEN IF v.kind = "str" /\ "," \in Range(v.s)
          THEN FormatDate(StrV(Trim(LastPart(v.s))))
          ELSE FormatDate(v)
     ELSE StringOf(v)

\* script.js:263-316 createTableRow: the record the click handler targets, the
\* 'done' class and the cells
CreateTableRow(item, columns) ==
  [item |-> item.id,
   done |-> IsDone(item.finished),
   cells |-> [k \in 1..Len(columns) |-> CellText(item, columns[k])]]

NoTable == [header |-> <<>>, rows |-> <<>>, message |-> ""]

\* script.js:202-259 renderTable once the single-task test has passed
TableOf(items, term, filterOn) ==
  IF items = <<>>
  THEN [NoTable EXCEPT !.message = "Loading data or no data found... Check Firestore connection and Rules."]
  ELSE LET shown == FilteredItems(items, term, filterOn)
       IN [header |-> TableColumns,
           rows |-> [k \in 1..Len(shown) |-> CreateTableRow(shown[k], TableColumns)],
           message |-> IF shown = <<>> THEN "No data matches the current search/filter."
                       ELSE ""]

\* script.js:198-260 renderTable on the page d
RenderTable(d, items, single, term, filterOn) ==
  IF single THEN d
  ELSE LET t == TableOf(items, term, filterOn)
       IN [d EXCEPT !.header = t.header, !.rows = t.rows, !.message = t.message,
                    !.output = ""]

\* the keys of the item with none taken out
ColumnsWithId(item) == Keys(item)

\* script.js:665, 712 Object.keys(item).filter(key => key !== 'id')
ColumnsOf(item) == SelectSeq(Keys(item), LAMBDA key : key # "id")

\* script.js:651-683 displayTasks
DisplayTasks(d, tasks) ==
  IF tasks = <<>>
  THEN [d EXCEPT !.header = <<>>, !.rows = <<>>, !.output = "",
                 !.message = "No tasks to display."]
  ELSE [d EXCEPT !.header = ColumnsOf(tasks[1]),
                 !.rows = [k \in 1..Len(tasks) |-> CreateTableRow(tasks[k], ColumnsOf(tasks[1]))],
                 !.message = "",
                 !.output = ""]

\* script.js:335 the test that counts a record as finished
CountsAsFinished(v) == Truthy(v) /\ (v.kind # "str" \/ Trim(v.s) # <<>>)

\* script.js:337-349 the date a finished record is charted under
FinishedDate(v) ==
  IF v.kind = "ts" THEN ToDate(v.n)
  ELSE IF "," \in Range(v.s) THEN ParseDate(Trim(LastPart(v.s)))
  ELSE ParseDate(v.s)

\* script.js:331-361 the keys of finishedPerDay and the count under a key
ChartedIndexes(items) ==
  {k \in 1..Len(items) : /\ CountsAsFinished(items[k].finished)
                         /\ FinishedDate(items[k].finished) # InvalidDate}

FinishedPerDay(items, key) ==
  Cardinality({k \in ChartedIndexes(items) :
                 DateKey(FinishedDate(items[k].finished)) = key})

RECURSIVE SumTo(_, _, _)
SumTo(items, labels, k) ==
  IF k = 0 THEN 0 ELSE SumTo(items, labels, k - 1) + FinishedPerDay(items, labels[k])

NoChart == [labels |-> <<>>, data |-> <<>>]

\* script.js:367-379 labels and cumulativeData
ChartOf(items) ==
  LET labels == SortStrings({DateKey(FinishedDate(items[k].finished)) :
                               k \in ChartedIndexes(items)})
  IN IF labels = <<>>
     THEN [labels |-> <<<<"No Tasks Achieved Yet">>>>, data |-> <<0>>]
     ELSE [labels |-> labels,
           data |-> [k \in 1..Len(labels) |-> SumTo(items, labels, k)]]

\* script.js:319-440 updateProgress: nothing is drawn for an empty cache
UpdateProgress(d, items) ==
  IF items = <<>> THEN d ELSE [d EXCEPT !.chart = ChartOf(items)]

\* the page before anything was rendered
BlankPage ==
  [header |-> <<>>, rows |-> <<>>, message |-> "", output |-> "",
   progressView |-> FALSE, chart |-> NoChart, error |-> ""]

----------------------------------------------------------------------------
(* Document-store variant: src/script.js *)

Doc == variant = "doc"
Slots == DOMAIN ops

\* script.js:98-113 onSnapshot callback: the cache is rebuilt from the snapshot
\* and replaced in one assignment.
Snapshot ==
  /\ Doc
  /\ listeners # {}
  /\ dashboardItems # NewItems(store)
  /\ dashboardItems' = NewItems(store)
  /\ dom' = LET d == RenderTable(dom, NewItems(store), showingSingleRandomTask,
                                 currentSearchTerm, filterUnfinishedActive)
            IN IF d.progressView THEN UpdateProgress(d, NewItems(store)) ELSE d
  /\ lastEvent' = Event("other", NoReport)
  /\ UNCHANGED <<variant, store, nextId, writes, currentItemId, ops>>
  /\ UNCHANGED <<embVars, unsubscribeSnapshot, listeners, currentSearchTerm,
                 filterUnfinishedActive>>

\* a listenForDataUpdates that installs the new subscription and leaves the
\* previous one attached
ListenAgain ==
  /\ Doc
  /\ unsubscribeSnapshot < MaxListens
  /\ unsubscribeSnapshot' = unsubscribeSnapshot + 1
  /\ listeners' = listeners \cup {unsubscribeSnapshot + 1}
  /\ lastEvent' = Event("other", NoReport)
  /\ UNCHANGED <<variant, store, nextId, dashboardItems, writes, currentItemId, ops>>
  /\ UNCHANGED <<embVars, currentSearchTerm, filterUnfinishedActive, dom>>

\* script.js:88-120 listenForDataUpdates: line 89-91 detaches the installed
\* listener, line 98 installs the next one and keeps its unsubscribe handle
ListenForDataUpdates ==
  /\ Doc
  /\ unsubscribeSnapshot < MaxListens
  /\ unsubscribeSnapshot' = unsubscribeSnapshot + 1
  /\ listeners' = (listeners \ {unsubscribeSnapshot}) \cup {unsubscribeSnapshot + 1}
  /\ lastEvent' = Event("other", NoReport)
  /\ UNCHANGED <<variant, store, nextId, dashboardItems, writes, currentItemId, ops>>
  /\ UNCHANGED <<embVars, currentSearchTerm, filterUnfinishedActive, dom>>

\* script.js:825-829 input listener of the search box
SearchInput(term) ==
  /\ Doc
  /\ term # currentSearchTerm
  /\ currentSearchTerm' = term
  /\ showingSingleRandomTask' = FALSE
  /\ dom' = RenderTable(dom, dashboardItems, FALSE, term, filterUnfinishedActive)
  /\ lastEvent' = Event("other", NoReport)
  /\ UNCHANGED <<variant, writes, globalDB, currentGroupCode, localStorageDB>>
  /\ UNCHANGED <<docVars, unsubscribeSnapshot, listeners, filterUnfinishedActive>>

\* script.js:814-819 click listener of the filter button
ToggleFilter ==
  /\ Doc
  /\ filterUnfinishedActive' = ~filterUnfinishedActive
  /\ showingSingleRandomTask' = FALSE
  /\ dom' = RenderTable(dom, dashboardItems, FALSE, currentSearchTerm,
                        ~filterUnfinishedActive)
  /\ lastEvent' = Event("other", NoReport)
  /\ UNCHANGED <<variant, writes, globalDB, currentGroupCode, localStorageDB>>
  /\ UNCHANGED <<docVars, unsubscribeSnapshot, listeners, currentSearchTerm>>

\* script.js:617-624 the unfinished test of pickRandomTask
PickIsUnfinished(item) ==
  IF HasOwn(item.finished)
  THEN ~Truthy(item.finished)
       \/ (item.finished.kind = "str" /\ Trim(item.finished.s) = <<>>)
  ELSE TRUE

\* a pick that draws the group from all cached records, done ones included
PickAnyTask(code) ==
  /\ Doc
  /\ LET picking == [dom EXCEPT !.output = "Picking random task..."]
     IN IF dashboardItems = <<>>
        THEN /\ showingSingleRandomTask' = FALSE
             /\ dom' = RenderTable(picking, dashboardItems, FALSE, currentSearchTerm,
                                   filterUnfinishedActive)
        ELSE /\ \E k \in 1..Len(dashboardItems) : dashboardItems[k].codeFull = code
             /\ showingSingleRandomTask' = TRUE
             /\ dom' = DisplayTasks(picking,
                         SelectSeq(dashboardItems, LAMBDA item : item.codeFull = code))
  /\ lastEvent' = Event("other", NoReport)
  /\ UNCHANGED <<variant, writes, globalDB, currentGroupCode, localStorageDB>>
  /\ UNCHANGED <<docVars, unsubscribeSnapshot, listeners, currentSearchTerm,
                 filterUnfinishedActive>>

\* script.js:606-649 pickRandomTask; code is the group Math.random selects.
\* The messages of lines 611 and 626 are wiped by the renderTable that follows.
PickRandomTask(code) ==
  /\ Doc
  /\ LET unfinishedItems == SelectSeq(dashboardItems, PickIsUnfinished)
         picking == [dom EXCEPT !.output = "Picking random task..."]
     IN IF unfinishedItems = <<>>
        THEN /\ showingSingleRandomTask' = FALSE
             /\ dom' = RenderTable(picking, dashboardItems, FALSE, currentSearchTerm,
                                   filterUnfinishedActive)
        ELSE /\ \E k \in 1..Len(unfinishedItems) : unfinishedItems[k].codeFull = code
             /\ showingSingleRandomTask' = TRUE
             /\ dom' = DisplayTasks(picking,
                         SelectSeq(dashboardItems, LAMBDA item : item.codeFull = code))
  /\ lastEvent' = Event("other", NoReport)
  /\ UNCHANGED <<variant, writes, globalDB, currentGroupCode, localStorageDB>>
  /\ UNCHANGED <<docVars, unsubscribeSnapshot, listeners, currentSearchTerm,
                 filterUnfinishedActive>>

\* script.js:686-745 displaySingleTask(itemId, updateOutputDiv).  For an id
\* that is not cached, line 704 calls handleError without an error object,
\* which throws after the table was cleared and before the flag is reset.
DisplaySingleTask(itemId, updateOutputDiv) ==
  /\ Doc
  /\ LET cleared == [dom EXCEPT !.header = <<>>, !.rows = <<>>, !.message = "",
                                !.output = IF updateOutputDiv THEN "" ELSE @]
         k == FindIndex(itemId)
     IN IF k = 0
        THEN /\ dom' = cleared
             /\ lastEvent' = Event("other", HandleError(FALSE))
             /\ showingSingleRandomTask' = showingSingleRandomTask
        ELSE /\ dom' = [cleared EXCEPT
                          !.header = ColumnsOf(dashboardItems[k]),
                          !.rows = <<CreateTableRow(dashboardItems[k],
                                                    ColumnsOf(dashboardItems[k]))>>,
                          !.output = IF updateOutputDiv THEN "Random Task Selected:" ELSE @]
             /\ lastEvent' = Event("other", NoReport)
             /\ showingSingleRandomTask' = TRUE
  /\ UNCHANGED <<variant, writes, globalDB, currentGroupCode, localStorageDB>>
  /\ UNCHANGED <<docVars, unsubscribeSnapshot, listeners, currentSearchTerm,
                 filterUnfinishedActive>>

\* script.js:771-779
ShowDashboard ==
  /\ Doc
  /\ showingSingleRandomTask' = FALSE
  /\ dom' = LET d == [dom EXCEPT !.progressView = FALSE]
            IN IF showingSingleRandomTask
               THEN RenderTable(d, dashboardItems, FALSE, currentSearchTerm,
                                filterUnfinishedActive)
               ELSE d
  /\ lastEvent' = Event("other", NoReport)
  /\ UNCHANGED <<variant, writes, globalDB, currentGroupCode, localStorageDB>>
  /\ UNCHANGED <<docVars, unsubscribeSnapshot, listeners, currentSearchTerm,
                 filterUnfinishedActive>>

\* script.js:781-785
ShowProgress ==
  /\ Doc
  /\ dom' = UpdateProgress([dom EXCEPT !.progressView = TRUE], dashboardItems)
  /\ lastEvent' = Event("other", NoReport)
  /\ UNCHANGED <<variant, writes>>
  /\ UNCHANGED <<docVars, embVars, unsubscribeSnapshot, listeners, currentSearchTerm,
                 filterUnfinishedActive>>

\* script.js:274-282 row click handler, 444-445 openDoneModal
RowClick(i) ==
  /\ Doc
  /\ i \in CachedIds
  /\ currentItemId' = i
  /\ lastEvent' = Event("other", NoReport)
  /\ UNCHANGED <<variant, store, nextId, dashboardItems, writes, ops>>
  /\ UNCHANGED <<embVars, pageVars>>

\* script.js:467-471, wired to the close button and the Escape key (836, 858-863)
CloseDoneModal ==
  /\ Doc
  /\ currentItemId # NoId
  /\ currentItemId' = NoId
  /\ lastEvent' = Event("other", NoReport)
  /\ UNCHANGED <<variant, store, nextId, dashboardItems, writes, ops>>
  /\ UNCHANGED <<embVars, pageVars>>

FreeSlot ==
  CHOOSE s \in Slots : ops[s].pc = "idle" /\ \A r \in Slots : ops[r].pc = "idle" => s <= r

\* script.js:490-501: the missing-key check, then getDocs is issued
UpdateItemGroupByCodeFull(code, data) ==
  IF code = ""
  THEN /\ lastEvent' = Event("noInput", HandleError(FALSE))
       /\ UNCHANGED <<store, nextId, dashboardItems, writes, currentItemId, ops>>
  ELSE /\ \E s \in Slots : ops[s].pc = "idle"
       /\ ops' = [ops EXCEPT ![FreeSlot] =
                    [pc |-> "getDocs", code |-> code, data |-> data, matched |-> {}]]
       /\ lastEvent' = Event("other", NoReport)
       /\ UNCHANGED <<store, nextId, dashboardItems, writes, currentItemId>>

\* script.js:545-558 and 574-586: the checks both handlers make before the update
HandleGroupAction(data) ==
  IF currentItemId = NoId
  THEN /\ lastEvent' = Event("noInput", HandleError(FALSE))
       /\ UNCHANGED <<store, nextId, dashboardItems, writes, currentItemId, ops>>
  ELSE LET k == FindIndex(currentItemId) IN
       IF k = 0 \/ dashboardItems[k].codeFull = ""
       THEN /\ currentItemId' = NoId
            /\ lastEvent' = Event("notFound", HandleError(TRUE))
            /\ UNCHANGED <<store, nextId, dashboardItems, writes, ops>>
       ELSE UpdateItemGroupByCodeFull(dashboardItems[k].codeFull, data)

\* script.js:545-569
HandleMarkTaskAsDone ==
  /\ Doc
  /\ HandleGroupAction([field |-> "finished", value |-> TsV(Now)])
  /\ UNCHANGED variant
  /\ UNCHANGED <<embVars, pageVars>>

\* script.js:572-599
HandleSubmitRating(ratingValue) ==
  /\ Doc
  /\ HandleGroupAction([field |-> "Rating", value |-> StrV(ratingValue)])
  /\ UNCHANGED variant
  /\ UNCHANGED <<embVars, pageVars>>

\* script.js:490-494 called with no codeFull value, while no item is selected
CallUpdateItemGroupNoCode(data) ==
  /\ Doc
  /\ currentItemId = NoId
  /\ UpdateItemGroupByCodeFull("", data)
  /\ UNCHANGED variant
  /\ UNCHANGED <<embVars, pageVars>>

\* script.js:501-520 getDocs resolves: an empty result closes the modals, otherwise
\* one batch.update per matched document and the batch is committed
GetDocsResolve(s) ==
  /\ Doc
  /\ ops[s].pc = "getDocs"
  /\ LET m == QueryByCodeFull(store, ops[s].code) IN
     IF m = {}
     THEN /\ ops' = [ops EXCEPT ![s] = IdleOp]
          /\ currentItemId' = NoId
          /\ lastEvent' = Event("groupEmpty", NoReport)
     ELSE /\ ops' = [ops EXCEPT ![s].pc = "commit", ![s].matched = m]
          /\ lastEvent' = Event("other", NoReport)
          /\ UNCHANGED currentItemId
  /\ UNCHANGED <<variant, store, nextId, dashboardItems, writes>>
  /\ UNCHANGED <<embVars, pageVars>>

\* a catch that leaves the call in flight, to be committed again
CatchGroupUpdateRetry(s, what) ==
  /\ ops' = ops
  /\ lastEvent' = Event(what, HandleError(TRUE))
  /\ UNCHANGED <<nextId, dashboardItems, currentItemId>>

\* script.js:531-536 the catch: one handleError call, the function ends
CatchGroupUpdate(s, what) ==
  /\ ops' = [ops EXCEPT ![s] = IdleOp]
  /\ lastEvent' = Event(what, HandleError(TRUE))
  /\ UNCHANGED <<nextId, dashboardItems, currentItemId>>

\* script.js:501 getDocs rejects
GetDocsReject(s) ==
  /\ Doc
  /\ ops[s].pc = "getDocs"
  /\ CatchGroupUpdate(s, "groupFailed")
  /\ UNCHANGED <<variant, store, writes>>
  /\ UNCHANGED <<embVars, pageVars>>

\* script.js:523-529 batch.commit() resolves; 531-536 it rejects
Commit(s, serverOk) ==
  /\ Doc
  /\ ops[s].pc = "commit"
  /\ LET r == BatchCommit(store, ops[s].matched, ops[s].data, serverOk) IN
     /\ CanWrite(r.store)
     /\ store' = r.store
     /\ writes' = WritesAfter(r.store)
     /\ IF r.ok
        THEN /\ ops' = [ops EXCEPT ![s] = IdleOp]
             /\ currentItemId' = NoId
             /\ lastEvent' = Event("groupOk", NoReport)
             /\ UNCHANGED <<nextId, dashboardItems>>
        ELSE CatchGroupUpdate(s, IF ops[s].matched \subseteq DOMAIN store
                                 THEN "groupFailed" ELSE "commitFailedGone")
  /\ UNCHANGED variant
  /\ UNCHANGED <<embVars, pageVars>>

\* script.js:124-145.  updateDoc rejects when the document does not exist.
UpdateTask(itemId, dataToUpdate, serverOk) ==
  /\ Doc
  /\ IF itemId = NoId
     THEN /\ lastEvent' = Event("noInput", HandleError(FALSE))
          /\ UNCHANGED <<store, writes, currentItemId>>
     ELSE IF serverOk /\ itemId \in DOMAIN store
     THEN LET st == [store EXCEPT ![itemId] = Merge(@, dataToUpdate)] IN
          /\ CanWrite(st)
          /\ store' = st
          /\ writes' = WritesAfter(st)
          /\ currentItemId' = NoId
          /\ lastEvent' = Event("other", NoReport)
     ELSE /\ lastEvent' = Event("writeFailed", HandleError(TRUE))
          /\ UNCHANGED <<store, writes, currentItemId>>
  /\ UNCHANGED <<variant, nextId, dashboardItems, ops>>
  /\ UNCHANGED <<embVars, pageVars>>

AddDoc(st, i, d) == [j \in DOMAIN st \cup {i} |-> IF j = i THEN d ELSE st[j]]
RemoveDoc(st, i) == [j \in DOMAIN st \ {i} |-> st[j]]

\* script.js:149-167
AddTask(code, serverOk) ==
  /\ Doc
  /\ IF serverOk
     THEN /\ nextId <= MaxIds
          /\ writes < MaxWrites
          /\ store' = AddDoc(store, nextId, NewDoc(nextId, code))
          /\ nextId' = nextId + 1
          /\ writes' = writes + 1
          /\ lastEvent' = Event("other", NoReport)
     ELSE /\ lastEvent' = Event("writeFailed", HandleError(TRUE))
          /\ UNCHANGED <<store, nextId, writes>>
  /\ UNCHANGED <<variant, dashboardItems, currentItemId, ops>>
  /\ UNCHANGED <<embVars, pageVars>>

\* script.js:170-193.  deleteDoc of a document that is already gone succeeds.
DeleteTask(itemId, confirmed, serverOk) ==
  /\ Doc
  /\ IF itemId = NoId
     THEN /\ lastEvent' = Event("noInput", HandleError(FALSE))
          /\ UNCHANGED <<store, writes>>
     ELSE IF ~confirmed
     THEN /\ lastEvent' = Event("other", NoReport)
          /\ UNCHANGED <<store, writes>>
     ELSE IF serverOk
     THEN LET st == RemoveDoc(store, itemId) IN
          /\ CanWrite(st)
          /\ store' = st
          /\ writes' = WritesAfter(st)
          /\ lastEvent' = Event("other", NoReport)
     ELSE /\ lastEvent' = Event("writeFailed", HandleError(TRUE))
          /\ UNCHANGED <<store, writes>>
  /\ UNCHANGED <<variant, nextId, dashboardItems, currentItemId, ops>>
  /\ UNCHANGED <<embVars, pageVars>>

\* the confirmation dialog elided at script.js:749
ClearConfirmed(answer) == answer

\* the check elided at script.js:750: nothing to do without cached items
ClearHasItems == dashboardItems # <<>>

\* the batch elided at script.js:753 and 762: one bulk write, which fails when
\* a cached record is no longer in the store
ClearCommit(st, ids) ==
  IF ids \subseteq DOMAIN st
  THEN [ok |-> TRUE,
        store |-> [i \in DOMAIN st |-> IF i \in ids THEN ClearDoc(st[i]) ELSE st[i]]]
  ELSE [ok |-> FALSE, store |-> st]

\* script.js:755-758 for (const item of dashboardItems): one update per cached item
ClearTargets == CachedIds

\* a clear that does not wait for the answer to the dialog
ClearAllMarkingsUnasked(answer) ==
  /\ Doc
  /\ IF ~ClearHasItems
     THEN /\ lastEvent' = Event("other", NoReport)
          /\ UNCHANGED <<store, writes>>
     ELSE LET r == ClearCommit(store, ClearTargets) IN
          /\ CanWrite(r.store)
          /\ store' = r.store
          /\ writes' = WritesAfter(r.store)
          /\ lastEvent' = IF ~r.ok THEN Event("clearFailed", HandleError(TRUE))
                          ELSE IF answer THEN Event("clearOk", NoReport)
                          ELSE Event("clearDeclined", NoReport)
  /\ UNCHANGED <<variant, nextId, dashboardItems, currentItemId, ops>>
  /\ UNCHANGED <<embVars, pageVars>>

\* script.js:747-767 clearAllMarkings
ClearAllMarkings(answer) ==
  /\ Doc
  /\ IF ~ClearConfirmed(answer)
     THEN /\ lastEvent' = Event("clearDeclined", NoReport)
          /\ UNCHANGED <<store, writes>>
     ELSE IF ~ClearHasItems
     THEN /\ lastEvent' = Event("other", NoReport)
          /\ UNCHANGED <<store, writes>>
     ELSE LET r == ClearCommit(store, ClearTargets) IN
          /\ CanWrite(r.store)
          /\ store' = r.store
          /\ writes' = WritesAfter(r.store)
          /\ lastEvent' = IF r.ok THEN Event("clearOk", NoReport)
                          ELSE Event("clearFailed", HandleError(TRUE))
  /\ UNCHANGED <<variant, nextId, dashboardItems, currentItemId, ops>>
  /\ UNCHANGED <<embVars, pageVars>>

\* Another writer on the same collection (another browser tab) adds a record
RemoteAdd(code, marked) ==
  /\ Doc
  /\ nextId <= MaxIds
  /\ writes < MaxWrites
  /\ store' = AddDoc(store, nextId, ImportedDoc(nextId, code, marked))
  /\ nextId' = nextId + 1
  /\ writes' = writes + 1
  /\ lastEvent' = Event("other", NoReport)
  /\ UNCHANGED <<variant, dashboardItems, currentItemId, ops>>
  /\ UNCHANGED <<embVars, pageVars>>

\* Another writer deletes a record
RemoteDelete(i) ==
  /\ Doc
  /\ i \in DOMAIN store
  /\ writes < MaxWrites
  /\ store' = RemoveDoc(store, i)
  /\ writes' = writes + 1
  /\ lastEvent' = Event("other", NoReport)
  /\ UNCHANGED <<variant, nextId, dashboardItems, currentItemId, ops>>
  /\ UNCHANGED <<embVars, pageVars>>

----------------------------------------------------------------------------
(* Embedded-store variant: src/unnamed/part_000 *)

Embedded == variant = "embedded"

Rows == 1..3

\* new Date().toISOString()
IsoString(n) ==
  <<"2024-01-01T10:00:00.000Z", "2024-01-02T10:00:00.000Z", "2024-01-03T10:00:00.000Z",
    "2024-01-04T10:00:00.000Z", "2024-01-05T10:00:00.000Z", "2024-01-06T10:00:00.000Z">>[n]

GroupRows(db, code) == {r \in Rows : db[r].code_full = code}

FirstRow(S) == CHOOSE r \in S : \A q \in S : r <= q

\* part_000:308-312 SELECT finished ... LIMIT 1, then || ""
ExistingFinished(db, code) ==
  IF GroupRows(db, code) = {} THEN <<>>
  ELSE LET v == db[FirstRow(GroupRows(db, code))].finished
       IN IF Truthy(v) THEN v.s ELSE <<>>

\* part_000:313-318
NewFinished(existing, now) ==
  IF Trim(existing) = <<>> THEN <<IsoString(now)>>
  ELSE existing \o <<",", " ">> \o <<IsoString(now)>>

\* part_000:320 UPDATE ... SET finished = '...' WHERE "code_full" = '...'
SqlUpdateFinished(db, code, value) ==
  [r \in Rows |-> IF db[r].code_full = code
                  THEN [db[r] EXCEPT !.finished = StrV(value)] ELSE db[r]]

ChunkSize == 5   \* part_000:3 CHUNK_SIZE, in cells of the exported file

\* the cells of one exported row, in column order
ExportRow(row) ==
  <<StrV(<<row.code_full>>), StrV(<<row.name>>), row.finished, row.Rating>>

\* part_000:416 globalDB.export(): the file as a sequence of cells, row by row
RECURSIVE ExportRows(_, _)
ExportRows(db, ids) ==
  IF ids = <<>> THEN <<>>
  ELSE ExportRow(db[Head(ids)]) \o ExportRows(db, Tail(ids))

Export(db) == ExportRows(db, SortedIds(DOMAIN db))

\* new SQL.Database(bytes): the table read back from the file
Import(bytes) ==
  [r \in 1..(Len(bytes) \div 4) |->
     [code_full |-> bytes[4 * r - 3].s[1], name |-> bytes[4 * r - 2].s[1],
      finished |-> bytes[4 * r - 1], Rating |-> bytes[4 * r]]]

\* btoa / atob: every unit of the binary string becomes a base64 unit and back
Btoa(binary) == [k \in 1..Len(binary) |-> [b64 |-> binary[k]]]
Atob(base64) == [k \in 1..Len(base64) |-> base64[k].b64]

\* part_000:8-12 the while loop: result += the slice at index, index += CHUNK_SIZE
RECURSIVE BinaryString(_, _)
BinaryString(u8Arr, index) ==
  IF index >= Len(u8Arr) THEN <<>>
  ELSE LET stop == IF index + ChunkSize < Len(u8Arr) THEN index + ChunkSize
                   ELSE Len(u8Arr)
       IN SubSeq(u8Arr, index + 1, stop) \o BinaryString(u8Arr, index + ChunkSize)

\* part_000:2-14
Uint8ArrayToBase64(u8Arr) == Btoa(BinaryString(u8Arr, 0))

\* part_000:16-24
Base64ToUint8Array(base64) ==
  LET binary_string == Atob(base64)
  IN [i \in 1..Len(binary_string) |-> binary_string[i]]

\* the table of data/data_bifie.db as it is fetched on the first load
SeedDB ==
  [r \in Rows |->
     [code_full |-> IF r <= 2 THEN "A" ELSE "B",
      name |-> NameOfNewItem(r),
      finished |-> IF r = 2 THEN StrV(<<"2023-12-31T10:00:00.000Z">>) ELSE NullV,
      Rating |-> NullV]]

\* a persist that leaves the image of the first load in local storage
PersistFirstLoad(db) ==
  [key |-> "data_bifie_db", value |-> Uint8ArrayToBase64(Export(SeedDB))]

\* part_000:414-418 globalDB.export(), base64, localStorage.setItem
PersistDatabase(db) == [key |-> "data_bifie_db", value |-> Uint8ArrayToBase64(Export(db))]

\* part_000:101 stmt[0].columns: the columns of the discovered table
EmbColumns == <<"code_full", "name", "finished", "Rating">>

\* a cell of the row SELECT * returns
EmbValue(row, col) ==
  IF col \in {"code_full", "name"} THEN StrV(<<row[col]>>) ELSE row[col]

\* part_000:107 row.join(" "): null joins as the empty string
RECURSIVE EmbJoin(_, _)
EmbJoin(row, cols) ==
  IF cols = <<>> THEN <<>>
  ELSE StringOf(EmbValue(row, Head(cols)))
       \o (IF Len(cols) > 1 THEN <<" ">> \o EmbJoin(row, Tail(cols)) ELSE <<>>)

\* part_000:108
EmbMatchesSearch(row, term) ==
  term = <<>> \/ Includes(ToLowerCase(EmbJoin(row, EmbColumns)), ToLowerCase(term))

\* part_000:112 !(row[finishedIndex] && row[finishedIndex].toString().trim() !== "")
EmbIsUnfinished(row) ==
  ~(Truthy(row.finished) /\ Trim(StringOf(row.finished)) # <<>>)

\* part_000:27-36 formatDate
EmbFormatDate(s) ==
  IF ParseDate(s) = InvalidDate THEN s ELSE FormatDate(StrV(s))

\* part_000:138-177 createTableRow
EmbCreateTableRow(r, row) ==
  LET done == Truthy(row.finished) /\ Trim(StringOf(row.finished)) # <<>>
      text(col) ==
        IF col = "finished" /\ done
        THEN EmbFormatDate(Trim(LastPart(Trim(StringOf(row.finished)))))
        ELSE StringOf(EmbValue(row, col))
  IN [item |-> r, done |-> done,
      cells |-> [k \in 1..Len(EmbColumns) |-> text(EmbColumns[k])]]

\* part_000:76-135 loadData(searchTerm)
LoadData(d, db, single, term, filterOn) ==
  LET cleared == IF single THEN d ELSE [d EXCEPT !.output = ""]
      ids == SortedIds(DOMAIN db)
      shown == SelectSeq(ids, LAMBDA r :
                 EmbMatchesSearch(db[r], term) /\ (~filterOn \/ EmbIsUnfinished(db[r])))
  IN IF ids = <<>>
     THEN [cleared EXCEPT !.header = <<>>, !.rows = <<>>,
                          !.error = "No data found in the table."]
     ELSE [cleared EXCEPT !.header = EmbColumns,
                          !.rows = [k \in 1..Len(shown) |->
                                      EmbCreateTableRow(shown[k], db[shown[k]])]]

\* part_000:180-281 updateProgress.  Line 202 reads the undeclared name `key`,
\* so the first finished row throws a ReferenceError and the catch on line 278
\* leaves the chart as it was; without a finished row the fallback is drawn.
EmbUpdateProgress(d, db) ==
  IF DOMAIN db = {} THEN d
  ELSE IF \E r \in DOMAIN db : Truthy(db[r].finished) /\ Trim(StringOf(db[r].finished)) # <<>>
  THEN d
  ELSE [d EXCEPT !.chart = [labels |-> <<<<"No Tasks Achieved">>>>, data |-> <<0>>]]

\* the user edits the search box; part_000 reads its value on the next load
EmbTypeSearch(term) ==
  /\ Embedded
  /\ term # currentSearchTerm
  /\ currentSearchTerm' = term
  /\ lastEvent' = Event("other", NoReport)
  /\ UNCHANGED <<variant, writes>>
  /\ UNCHANGED <<docVars, embVars, unsubscribeSnapshot, listeners,
                 filterUnfinishedActive, dom>>

\* the filter button of the embedded page: the flag of part_000:42 is flipped
\* and the table is loaded again
EmbToggleFilter ==
  /\ Embedded
  /\ filterUnfinishedActive' = ~filterUnfinishedActive
  /\ showingSingleRandomTask' = FALSE
  /\ dom' = LoadData(dom, globalDB, showingSingleRandomTask, currentSearchTerm,
                     ~filterUnfinishedActive)
  /\ lastEvent' = Event("other", NoReport)
  /\ UNCHANGED <<variant, writes, globalDB, currentGroupCode, localStorageDB>>
  /\ UNCHANGED <<docVars, unsubscribeSnapshot, listeners, currentSearchTerm>>

\* part_000:382-389 showDashboard
EmbShowDashboard ==
  /\ Embedded
  /\ dom' = LET d == [dom EXCEPT !.progressView = FALSE]
            IN IF showingSingleRandomTask THEN d
               ELSE LoadData(d, globalDB, FALSE, currentSearchTerm,
                             filterUnfinishedActive)
  /\ showingSingleRandomTask' = showingSingleRandomTask
  /\ lastEvent' = Event("other", NoReport)
  /\ UNCHANGED <<variant, writes, globalDB, currentGroupCode, localStorageDB>>
  /\ UNCHANGED <<docVars, unsubscribeSnapshot, listeners, currentSearchTerm,
                 filterUnfinishedActive>>

\* part_000:390-394 showProgress
EmbShowProgress ==
  /\ Embedded
  /\ dom' = EmbUpdateProgress([dom EXCEPT !.progressView = TRUE], globalDB)
  /\ lastEvent' = Event("other", NoReport)
  /\ UNCHANGED <<variant, writes>>
  /\ UNCHANGED <<docVars, embVars, unsubscribeSnapshot, listeners, currentSearchTerm,
                 filterUnfinishedActive>>

\* part_000:45-73 initDatabase on a page load that finds a saved image: the
\* globals start over, the table comes from local storage and is shown
InitDatabase ==
  /\ Embedded
  /\ localStorageDB.value # <<>>
  /\ LET db == Import(Base64ToUint8Array(localStorageDB.value))
     IN /\ globalDB' = db
        /\ dom' = LoadData(BlankPage, db, FALSE, <<>>, FALSE)
  /\ currentGroupCode' = ""
  /\ showingSingleRandomTask' = FALSE
  /\ filterUnfinishedActive' = FALSE
  /\ currentSearchTerm' = <<>>
  /\ lastEvent' = Event("initDatabase", NoReport)
  /\ UNCHANGED <<variant, writes, localStorageDB>>
  /\ UNCHANGED <<docVars, unsubscribeSnapshot, listeners>>

\* part_000:161-169 row click, 284-285 openDoneModal
EmbRowClick(code) ==
  /\ Embedded
  /\ GroupRows(globalDB, code) # {}
  /\ currentGroupCode' = code
  /\ lastEvent' = Event("other", NoReport)
  /\ UNCHANGED <<variant, writes, globalDB, localStorageDB, showingSingleRandomTask>>
  /\ UNCHANGED <<docVars, pageVars>>

\* part_000:303-331
MarkTaskAsDone(codeFull) ==
  /\ Embedded
  /\ LET existing == ExistingFinished(globalDB, codeFull)
         db == SqlUpdateFinished(globalDB, codeFull, NewFinished(existing, Now))
     IN /\ db # globalDB => writes < MaxWrites
        /\ globalDB' = db
        /\ writes' = IF db # globalDB THEN writes + 1 ELSE writes
        /\ localStorageDB' = PersistDatabase(db)
        /\ dom' = LoadData(dom, db, showingSingleRandomTask,
                           IF showingSingleRandomTask THEN <<>> ELSE currentSearchTerm,
                           filterUnfinishedActive)
  /\ showingSingleRandomTask' = FALSE
  /\ lastEvent' = Event("markTaskAsDone", NoReport)
  /\ UNCHANGED <<variant, currentGroupCode>>
  /\ UNCHANGED <<docVars, unsubscribeSnapshot, listeners, currentSearchTerm,
                 filterUnfinishedActive>>

\* part_000:334-379.  The statement that declares `result` is inside the comment
\* on line 343, so line 345 throws a ReferenceError and the catch reports it.
SubmitRating(ratingValue) ==
  /\ Embedded
  /\ lastEvent' = IF currentGroupCode = "" THEN Event("other", NoReport)
                  ELSE Event("writeFailed", HandleError(TRUE))
  /\ UNCHANGED <<variant, writes, globalDB, currentGroupCode, localStorageDB,
                 showingSingleRandomTask>>
  /\ UNCHANGED <<docVars, pageVars>>

----------------------------------------------------------------------------
(* The system *)

\* two records of two task groups; the second carries earlier markings
SeedStore ==
  [i \in {1, 2} |->
     IF i = 1 THEN NewDoc(1, "A")
     ELSE [NewDoc(2, "B") EXCEPT !.finished = StrV(<<"2024-01-01T00:00:00Z">>),
                            !.Rating = StrV(<<"medium">>)]]

Init ==
  /\ variant \in {"doc", "embedded"}
  /\ store = SeedStore
  /\ nextId = 3
  /\ dashboardItems = <<>>
  /\ writes = 0
  /\ currentItemId = NoId
  /\ ops = <<IdleOp>>
  /\ lastEvent = Event("other", NoReport)
  /\ globalDB = SeedDB
  /\ currentGroupCode = ""
  /\ localStorageDB = PersistDatabase(SeedDB)
  /\ showingSingleRandomTask = FALSE
  /\ unsubscribeSnapshot = IF variant = "doc" THEN 1 ELSE 0
  /\ listeners = IF variant = "doc" THEN {1} ELSE {}
  /\ currentSearchTerm = <<>>
  /\ filterUnfinishedActive = FALSE
  /\ dom = IF variant = "doc" THEN BlankPage
           ELSE LoadData(BlankPage, SeedDB, FALSE, <<>>, FALSE)

Next ==
  \/ Snapshot
  \/ \E i \in Ids : RowClick(i)
  \/ CloseDoneModal
  \/ HandleMarkTaskAsDone
  \/ \E r \in SelectValues : HandleSubmitRating(r)
  \/ \E d \in FieldUpdates : CallUpdateItemGroupNoCode(d)
  \/ \E s \in Slots : GetDocsResolve(s)
  \/ \E s \in Slots : GetDocsReject(s)
  \/ \E s \in Slots, ok \in BOOLEAN : Commit(s, ok)
  \/ \E i \in {currentItemId} \cap DirectIds, d \in FieldUpdates, ok \in BOOLEAN : UpdateTask(i, d, ok)
  \/ \E c \in FormCodes, ok \in BOOLEAN : AddTask(c, ok)
  \/ \E i \in {currentItemId} \cap DirectIds, c \in BOOLEAN, ok \in BOOLEAN : DeleteTask(i, c, ok)
  \/ \E a \in BOOLEAN : ClearAllMarkings(a)
  \/ \E r \in RemoteRecords : RemoteAdd(r.code, r.marked)
  \/ \E i \in Ids : RemoteDelete(i)
  \/ \E c \in Codes : EmbRowClick(c)
  \/ \E c \in Codes \cup {"C"} : MarkTaskAsDone(c)
  \/ \E r \in SelectValues : SubmitRating(r)
  \/ InitDatabase

Spec == Init /\ [][Next]_vars

----------------------------------------------------------------------------
(* The renderers on their own: a collection (a table) that holds records   *)
(* with every kind of `finished` value is loaded and shown in every mode.  *)

PageRecords == 2   \* records of the collection that is shown

\* `finished` and `Rating` of the records the collection is filled with:
\* absent, null, empty, blank, a Timestamp, date strings, a comma-joined
\* history and a string that is no date
DocMarkings ==
  {[finished |-> UndefV, Rating |-> UndefV],
   [finished |-> NullV, Rating |-> NullV],
   [finished |-> StrV(<<>>), Rating |-> StrV(<<"false">>)],
   [finished |-> StrV(<<" ">>), Rating |-> NullV],
   [finished |-> TsV(1), Rating |-> StrV(<<"easy">>)],
   [finished |-> StrV(<<"2024-10-02T08:00:00Z">>), Rating |-> StrV(<<"hard">>)],
   [finished |-> StrV(<<"2024-02-10T08:00:00Z">>), Rating |-> NullV],
   [finished |-> StrV(<<"2024-10-02T08:00:00Z", ",", " ", "2024-01-01T00:00:00Z">>),
    Rating |-> StrV(<<"easy", ",", " ", "hard">>)],
   [finished |-> StrV(<<"soon">>), Rating |-> StrV(<<"medium">>)]}

\* the values a column of the embedded table holds: no Timestamp, no absent cell
EmbMarkings == {m \in DocMarkings : m.finished.kind \in {"null", "str"}}

PageCode(i) == IF i = 2 THEN "B" ELSE "A"

PageStores ==
  UNION {[1..n -> DocMarkings] : n \in 0..PageRecords}

PageStore(f) ==
  [i \in DOMAIN f |-> [codeFull |-> PageCode(i), name |-> NameOfNewItem(i),
                       finished |-> f[i].finished, Rating |-> f[i].Rating]]

PageDB(f) ==
  [r \in DOMAIN f |-> [code_full |-> PageCode(r), name |-> NameOfNewItem(r),
                       finished |-> f[r].finished, Rating |-> f[r].Rating]]

PageTerms == {<<>>, <<"TASK1">>, <<"b">>}

InitPage ==
  /\ variant \in {"doc", "embedded"}
  /\ \E f \in PageStores :
       IF variant = "doc"
       THEN /\ store = PageStore(f)
            /\ nextId = Len(f) + 1
            /\ globalDB = SeedDB
            /\ dom = BlankPage
       ELSE /\ store = SeedStore
            /\ nextId = 3
            /\ f \in UNION {[1..n -> EmbMarkings] : n \in 0..PageRecords}
            /\ globalDB = PageDB(f)
            /\ dom = LoadData(BlankPage, PageDB(f), FALSE, <<>>, FALSE)
  /\ dashboardItems = <<>>
  /\ writes = 0
  /\ currentItemId = NoId
  /\ ops = <<IdleOp>>
  /\ lastEvent = Event("other", NoReport)
  /\ currentGroupCode = ""
  /\ localStorageDB = PersistDatabase(globalDB)
  /\ showingSingleRandomTask = FALSE
  /\ unsubscribeSnapshot = IF variant = "doc" THEN 1 ELSE 0
  /\ listeners = IF variant = "doc" THEN {1} ELSE {}
  /\ currentSearchTerm = <<>>
  /\ filterUnfinishedActive = FALSE

NextPage ==
  \/ Snapshot
  \/ \E t \in PageTerms : SearchInput(t)
  \/ ToggleFilter
  \/ \E c \in Codes : PickRandomTask(c)
  \/ \E i \in 1..PageRecords, u \in BOOLEAN : DisplaySingleTask(i, u)
  \/ ShowDashboard
  \/ ShowProgress
  \/ \E t \in PageTerms : EmbTypeSearch(t)
  \/ EmbToggleFilter
  \/ EmbShowDashboard
  \/ EmbShowProgress

SpecPage == InitPage /\ [][NextPage]_vars

----------------------------------------------------------------------------
(* The page in use while the collection changes: the document-store         *)
(* variant with the filter button, the random pick and a renewed listener.  *)

InitView == Init /\ variant = "doc"

NextView ==
  \/ Snapshot
  \/ \E i \in Ids : RowClick(i)
  \/ HandleMarkTaskAsDone
  \/ \E s \in Slots : GetDocsResolve(s)
  \/ \E s \in Slots, ok \in BOOLEAN : Commit(s, ok)
  \/ \E r \in RemoteRecords : RemoteAdd(r.code, r.marked)
  \/ \E i \in Ids : RemoteDelete(i)
  \/ ListenForDataUpdates
  \/ ToggleFilter
  \/ \E c \in Codes : PickRandomTask(c)
  \/ ShowDashboard

SpecView == InitView /\ [][NextView]_vars

\* the group update of the page, a delete by another client, the random
\* pick and the listener
NextLive ==
  \/ Snapshot
  \/ \E i \in Ids : RowClick(i)
  \/ HandleMarkTaskAsDone
  \/ \E s \in Slots : GetDocsResolve(s)
  \/ \E s \in Slots, ok \in BOOLEAN : Commit(s, ok)
  \/ \E i \in Ids : RemoteDelete(i)
  \/ \E c \in Codes : PickRandomTask(c)
  \/ ShowDashboard

\* onSnapshot: the live subscription delivers every change of the collection
SpecLive == InitView /\ [][NextLive]_vars /\ WF_vars(Snapshot)

----------------------------------------------------------------------------
(* The modal in use while earlier group updates are still pending: the      *)
(* handlers are async, so the page takes the next click while getDocs or    *)
(* commit of an earlier call has not settled.                               *)

InitRace ==
  /\ variant = "doc"
  /\ store = SeedStore
  /\ nextId = 3
  /\ dashboardItems = <<>>
  /\ writes = 0
  /\ currentItemId = NoId
  /\ ops = [s \in 1..MaxOps |-> IdleOp]
  /\ lastEvent = Event("other", NoReport)
  /\ globalDB = SeedDB
  /\ currentGroupCode = ""
  /\ localStorageDB = PersistDatabase(SeedDB)
  /\ showingSingleRandomTask = FALSE
  /\ unsubscribeSnapshot = 1
  /\ listeners = {1}
  /\ currentSearchTerm = <<>>
  /\ filterUnfinishedActive = FALSE
  /\ dom = BlankPage

NextRace ==
  \/ Snapshot
  \/ \E i \in Ids : RowClick(i)
  \/ CloseDoneModal
  \/ HandleMarkTaskAsDone
  \/ \E r \in SelectValues : HandleSubmitRating(r)
  \/ \E s \in Slots : GetDocsResolve(s)
  \/ \E s \in Slots, ok \in BOOLEAN : Commit(s, ok)

SpecRace == InitRace /\ [][NextRace]_vars

----------------------------------------------------------------------------
(* Properties *)

\* the step in which the query of the group update in slot s resolves
QueryResolved(s) == Doc /\ ops[s].pc = "getDocs" /\ ops'[s].pc # "getDocs"

\* the step in which the batch of the group update in slot s commits
Committed(s, field) ==
  /\ Doc
  /\ ops[s].pc = "commit"
  /\ ops[s].data.field = field
  /\ lastEvent'.result = "groupOk"

\* the step in which commit() of the group update in slot s settles
CommitSettled(s) == Doc /\ ops[s].pc = "commit" /\ ops'[s] # ops[s]

\* the embedded variant's markTaskAsDone ran for group c and wrote
EmbMarked(c) ==
  /\ Embedded
  /\ lastEvent'.result = "markTaskAsDone"
  /\ globalDB' # globalDB
  /\ \E r \in Rows : globalDB[r].code_full = c /\ globalDB'[r] # globalDB[r]

\* C1: a successful markGroupDone(g) acts on exactly the records the backing
\* store holds with groupKey g when the update queries it, whatever the Local
\* Cache holds: each of them ends with a done `finished` value and every other
\* record is left as it was.  In the embedded variant every row of the group
\* ends done and every row of another group is unchanged.
C1_MarkGroupDoneFrame ==
  [][ /\ \A s \in Slots :
           QueryResolved(s) =>
             /\ ops'[s].pc = "commit" =>
                  ops'[s].matched = {i \in DOMAIN store : store[i].codeFull = ops[s].code}
             /\ ops'[s].pc = "idle" /\ lastEvent'.result = "groupEmpty" =>
                  \A i \in DOMAIN store : store[i].codeFull # ops[s].code
      /\ \A s \in Slots :
           Committed(s, "finished") =>
             /\ DOMAIN store' = DOMAIN store
             /\ \A i \in ops[s].matched : IsDone(store'[i].finished)
             /\ \A i \in DOMAIN store \ ops[s].matched : store'[i] = store[i]
      /\ \A c \in Codes :
           EmbMarked(c) =>
             \A r \in Rows :
               IF globalDB[r].code_full = c
               THEN IsDone(globalDB'[r].finished)
               ELSE globalDB'[r] = globalDB[r]
    ]_vars

\* a group was marked done through a cache that misses one of its records
C1_Witness ==
  /\ Doc
  /\ lastEvent.result = "groupOk"
  /\ \E i \in DOMAIN store :
       /\ i \notin CachedIds
       /\ store[i].codeFull = "A"
       /\ store[i].finished.kind = "ts"
  /\ \E i \in DOMAIN store : store[i].codeFull = "B"

\* C2: a group update is all-or-nothing.  When commit() settles, either the
\* caller sees success and every matched record carries the update, or the
\* caller sees one reported failure and no record of the store has changed.
C2_GroupUpdateAtomic ==
  [][ \A s \in Slots :
        CommitSettled(s) =>
          \/ /\ lastEvent'.result = "groupOk"
             /\ lastEvent'.handled = 0
             /\ \A i \in ops[s].matched :
                  /\ i \in DOMAIN store'
                  /\ IF ops[s].data.field = "finished"
                     THEN store'[i].finished = ops[s].data.value
                     ELSE store'[i].Rating = ops[s].data.value
          \/ /\ lastEvent'.result \in {"groupFailed", "commitFailedGone"}
             /\ lastEvent'.handled = 1
             /\ store' = store
    ]_vars

\* a commit failed because a matched record was deleted after the query, and
\* the surviving matched record does not carry the update
C2_Witness ==
  /\ Doc
  /\ lastEvent.result = "commitFailedGone"
  /\ \E i \in DOMAIN store : store[i].codeFull = "A" /\ store[i].finished.kind # "ts"

\* C3: marking a group done whose records are all done already leaves every
\* record's is-done value as it was (only the timestamp is overwritten) and
\* changes no record outside the group.
C3_MarkGroupDoneIdempotent ==
  [][ \A s \in Slots :
        /\ Committed(s, "finished")
        /\ \A i \in ops[s].matched : i \in DOMAIN store /\ IsDone(store[i].finished)
        => /\ DOMAIN store' = DOMAIN store
           /\ \A i \in DOMAIN store :
                IsDone(store'[i].finished) = IsDone(store[i].finished)
           /\ \A i \in DOMAIN store \ ops[s].matched : store'[i] = store[i]
    ]_vars

\* the group was marked done a second time: the cache still shows the first
\* timestamp, the store holds the second
C3_Witness ==
  /\ Doc
  /\ lastEvent.result = "groupOk"
  /\ 1 \in DOMAIN store
  /\ store[1].finished = TsV(2)
  /\ \E k \in 1..Len(dashboardItems) :
       dashboardItems[k].id = 1 /\ dashboardItems[k].finished = TsV(1)

\* C4: after clearAllMarkings has run, a query of the backing store returns no
\* record whose `finished` or `Rating` is non-empty, records that are not in
\* the Local Cache included.
C4_ClearAllMarkingsClearsEveryRecord ==
  Doc /\ lastEvent.result = "clearOk" =>
    \A i \in DOMAIN store : ~Truthy(store[i].finished) /\ ~Truthy(store[i].Rating)

C6_CacheIsLastSnapshot ==
  /\ dashboardItems = <<>>
  /\ [][ dashboardItems' # dashboardItems =>
           /\ store' = store
           /\ ops' = ops
           /\ Len(dashboardItems') = Cardinality(DOMAIN store)
           /\ \A i \in DOMAIN store :
                \E k \in 1..Len(dashboardItems') : dashboardItems'[k] = Item(store, i)
       ]_vars

\* a group update has succeeded and the cache still shows the record as it
\* was in the last snapshot
C6_Witness ==
  /\ Doc
  /\ lastEvent.result = "groupOk"
  /\ \E k \in 1..Len(dashboardItems) :
       /\ dashboardItems[k].id \in DOMAIN store
       /\ dashboardItems[k] # Item(store, dashboardItems[k].id)

C8_MissingInputShown ==
  Doc /\ lastEvent.result = "noInput" => lastEvent.shown = 1

\* C9: every stored `Rating` is absent or an enumerated label.
C9_OnlyEnumeratedRatingsStored ==
  Doc => \A i \in DOMAIN store :
           \/ store[i].Rating.kind = "null"
           \/ store[i].Rating.kind = "str" /\ store[i].Rating.s \in RatingLabels

\* C10: no step changes the groupKey or the descriptive fields of a record; a
\* group update that marks done leaves every `Rating` as it was and one that
\* rates leaves every `finished` as it was.  The embedded variant's
\* markTaskAsDone changes only `finished`.
C10_GroupUpdatesSingleField ==
  [][ /\ \A i \in DOMAIN store \cap DOMAIN store' :
           /\ store'[i].codeFull = store[i].codeFull
           /\ store'[i].name = store[i].name
      /\ \A s \in Slots :
           CommitSettled(s) =>
             /\ DOMAIN store' = DOMAIN store
             /\ \A i \in DOMAIN store :
                  /\ ops[s].data.field = "finished" => store'[i].Rating = store[i].Rating
                  /\ ops[s].data.field = "Rating" => store'[i].finished = store[i].finished
      /\ lastEvent'.result = "markTaskAsDone" =>
           \A r \in Rows :
             /\ globalDB'[r].code_full = globalDB[r].code_full
             /\ globalDB'[r].name = globalDB[r].name
             /\ globalDB'[r].Rating = globalDB[r].Rating
    ]_vars

\* the rated record of group B was marked done and kept its rating
C10_Witness ==
  /\ Doc
  /\ lastEvent.result = "groupOk"
  /\ \E i \in DOMAIN store :
       /\ store[i].codeFull = "B"
       /\ store[i].name = NameOfNewItem(i)
       /\ store[i].finished.kind = "ts"
       /\ store[i].Rating = StrV(<<"medium">>)

----------------------------------------------------------------------------
\* C11: at any time at most one snapshot listener is attached to the
\* collection, and it is the one whose handle listenForDataUpdates stored
\* last: every call detaches the previous subscription before it installs
\* the new one, so only the latest subscription can deliver snapshots.
C11_SingleListener ==
  Doc => /\ Cardinality(listeners) <= 1
         /\ listeners = {unsubscribeSnapshot}

\* the listener was renewed and the renewed one has delivered a snapshot
C11_Witness ==
  /\ Doc
  /\ unsubscribeSnapshot > 1
  /\ listeners = {unsubscribeSnapshot}
  /\ dashboardItems # <<>>

----------------------------------------------------------------------------
\* C12: whenever a snapshot delivers zero records, the Local Cache becomes
\* empty and the table shows the no-data state: no rows and no header of an
\* earlier render are left, whatever the search term, the filter flag and
\* the single-task flag are when the snapshot arrives.
C12_EmptySnapshotShowsNoData ==
  [][(Snapshot /\ DOMAIN store = {}) =>
       /\ dashboardItems' = <<>>
       /\ dom'.rows = <<>>
       /\ dom'.header = <<>>
       /\ dom'.message = "Loading data or no data found... Check Firestore connection and Rules."]_vars

----------------------------------------------------------------------------
\* a row on the page that is not the row of a cached record as it is now
StaleRow(row) ==
  ~\E k \in 1..Len(dashboardItems) :
      /\ dashboardItems[k].id = row.item
      /\ CreateTableRow(dashboardItems[k], dom.header) = row

CacheCurrent == dashboardItems = NewItems(store)

\* C13: with the subscription delivering every snapshot, a committed write
\* that the cache does not show yet is eventually in the Local Cache and on
\* the page: the cache equals the collection and no row on the page is left
\* from before the refresh.
C13_WriteReflectedAndRedrawn ==
  (Doc /\ ~CacheCurrent) ~>
     (CacheCurrent /\ \A k \in 1..Len(dom.rows) : ~StaleRow(dom.rows[k]))

----------------------------------------------------------------------------
\* C14: in the embedded variant the image in local storage is, after every
\* completed operation, the serialization of the in-memory table, and the
\* table a reload reads back from it is the table as the last completed
\* mutation left it.
C14_ImageIsCurrentDatabase ==
  Embedded =>
    /\ localStorageDB = [key |-> "data_bifie_db",
                         value |-> Uint8ArrayToBase64(Export(globalDB))]
    /\ Import(Base64ToUint8Array(localStorageDB.value)) = globalDB

\* a page load after a task group was marked: the marking is still there
C14_Witness ==
  /\ Embedded
  /\ lastEvent.result = "initDatabase"
  /\ writes > 0
  /\ \E r \in Rows : globalDB[r].finished # SeedDB[r].finished

----------------------------------------------------------------------------
\* `finished` is absent or empty: no property, null, or nothing but blanks
Unmarked(v) ==
  \/ v.kind \in {"undef", "null"}
  \/ v.kind = "str" /\ \A k \in 1..Len(v.s) : v.s[k] = " "

RowIds(d) == {d.rows[k].item : k \in 1..Len(d.rows)}

\* a step that draws the table from the cache (from the embedded table)
DrawsDocTable ==
  \/ Snapshot /\ ~showingSingleRandomTask
  \/ \E t \in PageTerms : SearchInput(t)
  \/ ToggleFilter

DrawsEmbTable ==
  \/ EmbToggleFilter
  \/ EmbShowDashboard /\ ~showingSingleRandomTask

\* C15: the rows a table render shows are exactly the records that match the
\* search term and, when the unfinished-only filter is on, whose `finished`
\* is absent or empty; with the filter off exactly the records that match
\* the search term.
C15_RowsAreFilteredRecords ==
  [][/\ DrawsDocTable =>
          RowIds(dom') =
            {dashboardItems'[k].id : k \in
               {j \in 1..Len(dashboardItems') :
                  /\ MatchesSearch(dashboardItems'[j], currentSearchTerm')
                  /\ filterUnfinishedActive' => Unmarked(dashboardItems'[j].finished)}}
     /\ DrawsEmbTable =>
          RowIds(dom') =
            {r \in DOMAIN globalDB' :
               /\ EmbMatchesSearch(globalDB'[r], currentSearchTerm')
               /\ filterUnfinishedActive' => Unmarked(globalDB'[r].finished)}]_vars

\* filter and search term are both in force: the record with a blank
\* `finished` and the group code the term names is shown, the other is not
C15_Witness ==
  /\ Doc
  /\ filterUnfinishedActive
  /\ currentSearchTerm = <<"b">>
  /\ ~showingSingleRandomTask
  /\ Len(dashboardItems) = 2
  /\ dashboardItems[2].finished = StrV(<<" ">>)
  /\ RowIds(dom) = {2}

----------------------------------------------------------------------------
\* the `finished` values of the records updateProgress reads
FinishedValues ==
  IF Doc THEN [k \in 1..Len(dashboardItems) |-> dashboardItems[k].finished]
  ELSE LET ids == SortedIds(DOMAIN globalDB)
       IN [k \in 1..Len(ids) |-> globalDB[ids[k]].finished]

\* the calendar day of a date
DayOf(date) == [y |-> date.y, m |-> date.m, d |-> date.d]

\* the indexes of the done records that carry a date
Dated(values) ==
  {k \in 1..Len(values) : ~Unmarked(values[k]) /\ FinishedDate(values[k]) # InvalidDate}

\* the days the done records were finished on
FinishedDays(values) == {DayOf(FinishedDate(values[k])) : k \in Dated(values)}

\* day a is day b or an earlier day
DayLE(a, b) ==
  \/ a.y < b.y
  \/ a.y = b.y /\ a.m < b.m
  \/ a.y = b.y /\ a.m = b.m /\ a.d <= b.d

FinishedUpTo(values, day) ==
  Cardinality({k \in Dated(values) : DayLE(FinishedDate(values[k]), day)})

\* the chart is the cumulative series of the finished days
CumulativeSeries(chart, values) ==
  LET days == FinishedDays(values)
  IN /\ Len(chart.labels) = Cardinality(days)
     /\ Len(chart.data) = Cardinality(days)
     /\ \A k \in 1..Len(chart.labels) :
          \E day \in days :
            /\ Cardinality({e \in days : DayLE(e, day)}) = k
            /\ chart.labels[k] = DateKey(day)
            /\ chart.data[k] = FinishedUpTo(values, day)
     /\ \A k \in 1..(Len(chart.data) - 1) : chart.data[k] <= chart.data[k + 1]

\* C16: when updateProgress runs over records of which some are done, the
\* chart has one point per distinct finished day in ascending order, the
\* value at a day is the number of done records finished on or before it,
\* and the values never decrease.
C16_ChartIsCumulative ==
  [][((ShowProgress \/ EmbShowProgress) /\ FinishedDays(FinishedValues) # {}) =>
       CumulativeSeries(dom'.chart, FinishedValues)]_vars

----------------------------------------------------------------------------
\* a step in which updateProgress runs
RunsUpdateProgress ==
  \/ ShowProgress
  \/ EmbShowProgress
  \/ Snapshot /\ dom.progressView

\* C17: when updateProgress runs over records none of which is done, an
\* empty set of records included, the chart it leaves is one placeholder
\* label with the value 0: not an empty series and not an earlier series.
C17_NoDoneRecordShowsPlaceholder ==
  [][(RunsUpdateProgress /\ \A k \in 1..Len(FinishedValues') : Unmarked(FinishedValues'[k]))
       => /\ Len(dom'.chart.labels) = 1
          /\ dom'.chart.data = <<0>>]_vars

----------------------------------------------------------------------------
\* C18: a record is done iff its `finished` is present and not empty after
\* trimming, and the four places that classify a record agree on every
\* cached record: the unfinished filter of renderTable, the 'done' class of
\* createTableRow, the finished count of updateProgress and the unfinished
\* selection of pickRandomTask; the rows on the page carry the 'done' class
\* of exactly the done records.
C18_DoneClassificationsAgree ==
  Doc =>
    /\ \A k \in 1..Len(dashboardItems) :
         LET item == dashboardItems[k]
             done == ~Unmarked(item.finished)
         IN /\ IsUnfinished(item) = ~done
            /\ IsDone(item.finished) = done
            /\ CountsAsFinished(item.finished) = done
            /\ PickIsUnfinished(item) = ~done
    /\ \A j \in 1..Len(dom.rows) :
         \E k \in 1..Len(dashboardItems) :
           /\ dashboardItems[k].id = dom.rows[j].item
           /\ dom.rows[j].done = ~Unmarked(dashboardItems[k].finished)

\* a blank `finished` and a Timestamp side by side in the table: the first
\* row is drawn as open, the second with the 'done' class
C18_Witness ==
  /\ Doc
  /\ Len(dashboardItems) = 2
  /\ dashboardItems[1].finished = StrV(<<" ">>)
  /\ dashboardItems[2].finished = TsV(1)
  /\ Len(dom.rows) = 2
  /\ ~dom.rows[1].done
  /\ dom.rows[2].done

----------------------------------------------------------------------------
\* C19: a comma-joined history in `finished` or `Rating` is shown as its last
\* entry only: no cell of these two columns on the page holds a comma.
C19_HistoryShownAsLastEntry ==
  \A j \in 1..Len(dom.rows) :
    \A c \in 1..Len(dom.header) :
      dom.header[c] \in {"finished", "Rating"} => "," \notin Range(dom.rows[j].cells[c])

----------------------------------------------------------------------------
----------------------------------------------------------------------------
\* the group updates that are pending: queried or waiting for their commit
InFlight == {s \in Slots : ops[s].pc # "idle"}

\* C21: at most one group update per groupKey is in flight at any time: no
\* two pending updates (query issued, commit not settled) carry the same
\* groupKey.
C21_SingleFlightPerGroup ==
  Doc => \A s, t \in InFlight : s # t => ops[s].code # ops[t].code

----------------------------------------------------------------------------
\* C22: at the moment the batch of markGroupDone(g) commits, every record the
\* backing store then holds with groupKey g has `finished` set, a record
\* that another writer added after the query and before the commit included.
C22_CommitCoversLateRecords ==
  [][ \A s \in Slots :
        Committed(s, "finished") =>
          \A i \in DOMAIN store' :
            store'[i].codeFull = ops[s].code => IsDone(store'[i].finished)
    ]_vars

----------------------------------------------------------------------------
\* the timestamps a `finished` cell of the embedded table holds so far
OwnHistory(v) == IF v.kind = "str" THEN Trim(v.s) ELSE <<>>

\* C23: the embedded markTaskAsDone(g) appends to every record of the group:
\* the new `finished` of each record is its own previous history followed by
\* the current timestamp, or the current timestamp alone when it had none,
\* also when the records of the group held different histories.
C23_AppendsToOwnHistory ==
  [][ \A c \in Codes :
        EmbMarked(c) =>
          \A r \in Rows :
            globalDB[r].code_full = c =>
              globalDB'[r].finished =
                StrV(IF OwnHistory(globalDB[r].finished) = <<>>
                     THEN <<IsoString(Now)>>
                     ELSE globalDB[r].finished.s \o <<",", " ", IsoString(Now)>>)
    ]_vars

----------------------------------------------------------------------------
\* the parts of a comma-joined string
RECURSIVE SplitComma(_)
SplitComma(s) ==
  IF "," \notin Range(s) THEN <<s>>
  ELSE LET k == CHOOSE j \in 1..Len(s) : s[j] = "," /\ \A i \in 1..(j - 1) : s[i] # ","
       IN <<SubSeq(s, 1, k - 1)>> \o SplitComma(SubSeq(s, k + 1, Len(s)))

\* the labels a `Rating` cell holds, in order
RatingHistory(v) ==
  IF v.kind = "str" /\ Trim(v.s) # <<>>
  THEN [k \in 1..Len(SplitComma(v.s)) |-> Trim(SplitComma(v.s)[k])]
  ELSE <<>>

\* how often the label occurs in the history
Occurrences(h, label) == Cardinality({k \in 1..Len(h) : h[k] = label})

\* C24: the embedded rating merge is idempotent.  submitRating(r) on a
\* selected group leaves the rating of a record whose history holds r as it
\* is, makes r occur exactly once in the history of a record whose history
\* lacks it, and no label ever occurs twice in a rating history.
C24_RatingMergeIdempotent ==
  /\ Embedded =>
       \A q \in Rows : \A k \in 1..Len(RatingHistory(globalDB[q].Rating)) :
         Occurrences(RatingHistory(globalDB[q].Rating),
                     RatingHistory(globalDB[q].Rating)[k]) = 1
  /\ [][ \A r \in SelectValues :
          SubmitRating(r) /\ currentGroupCode # "" =>
            \A q \in Rows :
              globalDB[q].code_full = currentGroupCode =>
                IF Occurrences(RatingHistory(globalDB[q].Rating), r) > 0
                THEN globalDB'[q].Rating = globalDB[q].Rating
                ELSE Occurrences(RatingHistory(globalDB'[q].Rating), r) = 1
      ]_vars

----------------------------------------------------------------------------
\* the step in which the group update in slot s ends: an empty query result,
\* a commit or a failure
Completed(s) == Doc /\ ops[s].pc # "idle" /\ ops'[s].pc = "idle"

\* the selection is a cached record of another group than the update in slot
\* s was started for: it was made after that update began
LaterSelection(s) ==
  /\ currentItemId # NoId
  /\ FindIndex(currentItemId) # 0
  /\ dashboardItems[FindIndex(currentItemId)].codeFull # ops[s].code

\* C25: the completion of a group update clears only the selection that
\* started it: a record the user selected while the update was in flight is
\* still selected after the update has completed.
C25_CompletionKeepsLaterSelection ==
  [][ \A s \in Slots :
        Completed(s) /\ LaterSelection(s) => currentItemId' = currentItemId
    ]_vars

----------------------------------------------------------------------------
\* the cached records of group g
GroupIds(g) ==
  {dashboardItems[k].id : k \in {j \in 1..Len(dashboardItems) : dashboardItems[j].codeFull = g}}

\* group g has a cached record that is not done
HasUnfinished(g) ==
  \E k \in 1..Len(dashboardItems) :
    dashboardItems[k].codeFull = g /\ Unmarked(dashboardItems[k].finished)

\* the cached records the table view lists under the search term and filter
Listed ==
  {dashboardItems[k].id : k \in
     {j \in 1..Len(dashboardItems) :
        /\ MatchesSearch(dashboardItems[j], currentSearchTerm)
        /\ filterUnfinishedActive => Unmarked(dashboardItems[j].finished)}}

\* C26: pickRandomTask displays only a group that has an unfinished record in
\* the Local Cache, then shows every cached record of that group, one row
\* each, and sets single-task mode; when the cache is empty or holds no
\* unfinished record it selects no group, leaves single-task mode off and
\* renders the table view.  The pick itself changes neither the cache nor
\* the filter.
C26_PickShowsUnfinishedGroup ==
  [][ (UNCHANGED <<docVars, filterUnfinishedActive>> /\ \E c \in Codes : PickRandomTask(c)) =>
        IF \E g \in Codes : HasUnfinished(g)
        THEN /\ showingSingleRandomTask'
             /\ \E g \in Codes :
                  /\ HasUnfinished(g)
                  /\ RowIds(dom') = GroupIds(g)
                  /\ Len(dom'.rows) = Cardinality(GroupIds(g))
        ELSE /\ ~showingSingleRandomTask'
             /\ RowIds(dom') = Listed
             /\ Len(dom'.rows) = Cardinality(Listed)
             /\ dom'.header = IF dashboardItems = <<>> THEN <<>> ELSE TableColumns
    ]_vars

\* the group view shows both cached records of a group of which one is done
\* and one is not
C26_Witness ==
  /\ Doc
  /\ showingSingleRandomTask
  /\ Len(dom.rows) = 2
  /\ dom.rows[1].done
  /\ ~dom.rows[2].done
  /\ Len(dashboardItems) = 3
  /\ RowIds(dom) = GroupIds("A")

====
